---- MODULE Spec2Model ----
(***************************************************************************)
(* DFU back-end for MMC media (drivers/dfu/dfu_mmc.c).                     *)
(*                                                                         *)
(* The state is the driver's two statics (dfu_file_buf, dfu_file_buf_len), *)
(* the tracked active hardware partition of the MMC device                 *)
(* (mmc->part_num), and a record of the last medium operation: what it     *)
(* returned, the value left in *len, and the calls it made to the block    *)
(* device, the partition switch, the command interpreter and the           *)
(* environment, each with the answer it got.                               *)
(*                                                                         *)
(* dfu_fill_entity_mmc is modelled on descriptors that are sequences of    *)
(* characters, cut into tokens and parsed as the code does it.             *)
(*                                                                         *)
(* u32 arithmetic is kept modulo 2^WordBits: WordBits stands for the 32    *)
(* bits of the lba_* fields and of blk_start/blk_count, scaled down so     *)
(* that wrap-around is within reach of an exhaustive search.               *)
(***************************************************************************)
EXTENDS Integers, Sequences, FiniteSets, TLC

VARIABLES
    dfu_file_buf,      \* the staging array, CONFIG_SYS_DFU_MAX_FILE_SIZE bytes
    dfu_file_buf_len,  \* number of staged bytes
    part_num,          \* mmc->part_num, the device's active hardware partition
    last,              \* observation of the last medium operation
    hist,              \* history: the bytes of the writes accepted since the
                       \* last flush (sinceFlush) and since the last flush of
                       \* an entity that is not raw (sinceReset), both also
                       \* restarted by an overflow
    arg,               \* the entity, offset and length of a raw request
                       \* or the descriptor handed to dfu_fill_entity_mmc
    wrote              \* history: where the last successful raw write put
                       \* its blocks (kept where Init switches it on)

vars == <<dfu_file_buf, dfu_file_buf_len, part_num, last, hist, arg, wrote>>

(***************************************************************************)
(* Bounds of the model.                                                    *)
(***************************************************************************)
WordBits == 4
MaxLba == 2
MaxBlkShift == 1
MaxLen == 3
MaxPart == 1
CONFIG_SYS_DFU_MAX_FILE_SIZE == 2

Word == 2 ^ WordBits
MaxWrite == CONFIG_SYS_DFU_MAX_FILE_SIZE + 1
Sat == CONFIG_SYS_DFU_MAX_FILE_SIZE + 1

(***************************************************************************)
(* Program constants.                                                      *)
(***************************************************************************)
EINVAL == 22
EIO == 5
ENODEV == 19

U32(x) == x % Word

Min(a, b) == IF a < b THEN a ELSE b

\* hw_partition of an entity without the "mmcpart" suffix
NoHwPartition == -EINVAL

RawLayout == "DFU_RAW_ADDR"
FsLayouts == {"DFU_FS_FAT", "DFU_FS_EXT4"}
OtherLayouts == {"DFU_FS_EXT2", "UNSET"}

IsFs(d) == d.layout \in FsLayouts
IsRaw(d) == d.layout = RawLayout
IsOther(d) == ~IsFs(d) /\ ~IsRaw(d)

\* Failure code of mmc_switch_part (TIMEOUT)
SwitchErrors == {-19}
SwitchResults == {0} \cup SwitchErrors

\* Results of run_command: success, command failure, parser failure
CmdResults == {0, 1, -1}

(***************************************************************************)
(* Formatting and parsing of the numbers that travel through the command   *)
(* line ("%lx") and through the "filesize" environment variable            *)
(* (simple_strtoul(.., 16)): a numeral is its sequence of hex digits, most *)
(* significant first.                                                      *)
(***************************************************************************)
RECURSIVE ToHex(_)
ToHex(n) == IF n < 16 THEN <<n>> ELSE Append(ToHex(n \div 16), n % 16)

\* variant: the numeral is read in base 10
RECURSIVE simple_strtoul_mut(_)
simple_strtoul_mut(s) ==
    IF s = <<>> THEN 0
    ELSE 10 * simple_strtoul_mut(SubSeq(s, 1, Len(s) - 1)) + s[Len(s)]

RECURSIVE simple_strtoul(_)
simple_strtoul(s) ==
    IF s = <<>> THEN 0
    ELSE 16 * simple_strtoul(SubSeq(s, 1, Len(s) - 1)) + s[Len(s)]

(***************************************************************************)
(* mmc_block_op and its helpers.                                           *)
(***************************************************************************)

\* ALIGN(x, a): x rounded up to the nearest multiple of a
ALIGN(x, a) == CHOOSE m \in x..(x + a - 1) : m % a = 0

\* lldiv(dividend, divisor): the floor of the quotient
lldiv(dividend, divisor) == dividend \div divisor

blk_start(d, offset) == U32(d.lba_start + U32(lldiv(offset, d.lba_blk_size)))

\* variant: one block too many
blk_count_mut(d, len) == U32((len + d.lba_blk_size) \div d.lba_blk_size)
blk_count(d, len) == U32(len \div d.lba_blk_size)

exceeds_area(d, start, count) ==
    U32(start + count) > U32(d.lba_start + d.lba_size)

SwitchCall(part, res) == [fn |-> "mmc_switch_part", part |-> part, res |-> res]
BlockCall(fn, start, count, res) ==
    [fn |-> fn, start |-> start, count |-> count, res |-> res]

\* mmc_access_part(dfu, mmc, part) with mmc->part_num = cur; res is what
\* mmc_switch_part answers if it is called
mmc_access_part(cur, part, res) ==
    IF part = cur
    THEN [ret |-> 0, part_num |-> cur, calls |-> <<>>]
    ELSE IF res # 0
         THEN [ret |-> res, part_num |-> cur, calls |-> <<SwitchCall(part, res)>>]
         ELSE [ret |-> 0, part_num |-> part, calls |-> <<SwitchCall(part, res)>>]

\* the switch into dfu->data.mmc.hw_partition (lines 62-67)
\* variant: the result of the switch is not looked at
enter_part_mut(d, cur, res) ==
    IF d.hw_partition >= 0
    THEN [mmc_access_part(cur, d.hw_partition, res) EXCEPT !.ret = 0]
    ELSE [ret |-> 0, part_num |-> cur, calls |-> <<>>]
enter_part(d, cur, res) ==
    IF d.hw_partition >= 0
    THEN mmc_access_part(cur, d.hw_partition, res)
    ELSE [ret |-> 0, part_num |-> cur, calls |-> <<>>]

\* the switch back to part_num_bkp on the two exits after the transfer
\* variant: the partition is never switched back
leave_part_mut(d, cur, bkp, res) == [ret |-> 0, part_num |-> cur, calls |-> <<>>]
leave_part(d, cur, bkp, res) ==
    IF d.hw_partition >= 0
    THEN mmc_access_part(cur, bkp, res)
    ELSE [ret |-> 0, part_num |-> cur, calls |-> <<>>]

\* the block transfer (lines 72-83); n is the count the device reports
transfer(op, start, count, n) ==
    CASE op = "DFU_OP_READ" -> [n |-> U32(n), calls |-> <<BlockCall("block_read", start, count, U32(n))>>]
      [] op = "DFU_OP_WRITE" -> [n |-> U32(n), calls |-> <<BlockCall("block_write", start, count, U32(n))>>]
      [] OTHER -> [n |-> 0, calls |-> <<>>]

\* the test on the count the device reported (line 85)
\* variant: a count larger than asked for passes
short_transfer_mut(n, count) == n < count
short_transfer(n, count) == n # count

\* mmc_block_op(op, dfu, offset, buf, len) with mmc->part_num = cur;
\* sw_in, n, sw_back are the answers of the device to the switch in, the
\* transfer and the switch back.  The result is the return value, *len,
\* mmc->part_num and the calls made.
mmc_block_op(op, d, offset, len, cur, sw_in, n, sw_back) ==
    LET alen  == ALIGN(len, d.lba_blk_size)
        start == blk_start(d, offset)
        count == blk_count(d, alen)
        in    == enter_part(d, cur, sw_in)
        x     == transfer(op, start, count, n)
        bkp   == IF d.hw_partition >= 0 THEN cur ELSE 0
        out   == leave_part(d, in.part_num, bkp, sw_back)
    IN  IF exceeds_area(d, start, count)
        THEN [ret |-> -EINVAL, len |-> alen, part_num |-> cur, calls |-> <<>>]
        ELSE IF in.ret # 0
        THEN [ret |-> in.ret, len |-> alen, part_num |-> in.part_num,
              calls |-> in.calls]
        ELSE IF short_transfer(x.n, count)
        THEN [ret |-> -EIO, len |-> alen, part_num |-> out.part_num,
              calls |-> in.calls \o x.calls \o out.calls]
        ELSE [ret |-> out.ret, len |-> alen, part_num |-> out.part_num,
              calls |-> in.calls \o x.calls \o out.calls]

(***************************************************************************)
(* The staging buffer and the filesystem commands.                         *)
(***************************************************************************)

\* memcpy(dfu_file_buf + at, data, Len(data))
memcpy(buf, at, data) ==
    [i \in DOMAIN buf |->
        IF i > at /\ i <= at + Len(data) THEN data[i - at] ELSE buf[i]]

\* variants: an exact fit is refused; one byte too many is accepted
overflows_mut(blen, len) == blen + len >= CONFIG_SYS_DFU_MAX_FILE_SIZE
overflows_wide(blen, len) == blen + len > CONFIG_SYS_DFU_MAX_FILE_SIZE + 1
overflows(blen, len) == blen + len > CONFIG_SYS_DFU_MAX_FILE_SIZE

\* mmc_file_buffer(dfu, buf, len): data are the *len bytes at buf
mmc_file_buffer(buf, blen, data, len) ==
    IF overflows(blen, len)
    THEN [ret |-> -EINVAL, buf |-> buf, buf_len |-> 0]
    ELSE [ret |-> 0, buf |-> memcpy(buf, blen, data), buf_len |-> blen + len]

\* variant: any layout but ext4 is taken for FAT
fsname_mut(d) ==
    CASE d.layout = "DFU_FS_EXT4" -> "ext4"
      [] OTHER -> "fat"
fsname(d) ==
    CASE d.layout = "DFU_FS_FAT" -> "fat"
      [] d.layout = "DFU_FS_EXT4" -> "ext4"
      [] OTHER -> "none"

\* variant: a read is given the sub-command of a write
opname_mut(op) ==
    CASE op = "DFU_OP_SIZE" -> "size"
      [] OTHER -> "write"
opname(op) ==
    CASE op = "DFU_OP_READ" -> "load"
      [] op = "DFU_OP_WRITE" -> "write"
      [] op = "DFU_OP_SIZE" -> "size"
      [] OTHER -> "none"

\* the command line built by the sprintf calls (lines 150-159): the fields
\* of "<fs><op> mmc <dev>:<part> [0x<addr>] <name> [<len in hex>]"; data are
\* the len bytes at addr, which a write command takes from memory
CmdCall(op, d, addr, len, data, res) ==
    [fn   |-> "run_command",
     fs   |-> fsname(d),
     op   |-> opname(op),
     dev  |-> d.dev,
     part |-> d.part,
     addr |-> IF op # "DFU_OP_SIZE" THEN addr ELSE "",
     name |-> d.name,
     len  |-> IF op = "DFU_OP_WRITE" THEN ToHex(len) ELSE <<>>,
     data |-> IF op = "DFU_OP_WRITE" THEN data ELSE <<>>,
     res  |-> res]

GetenvCall(env) == [fn |-> "getenv", name |-> "filesize", res |-> env]

\* mmc_file_op(op, dfu, buf, len): cmd_res is what run_command answers and
\* env what getenv("filesize") answers.  The result is the return value,
\* *len and the calls made.
mmc_file_op(op, d, addr, len, data, cmd_res, env) ==
    IF fsname(d) = "none" THEN [ret |-> -1, len |-> len, calls |-> <<>>]
    ELSE IF opname(op) = "none" THEN [ret |-> -1, len |-> len, calls |-> <<>>]
    ELSE LET cmd == CmdCall(op, d, addr, len, data, cmd_res)
         IN  IF cmd_res # 0
             THEN [ret |-> cmd_res, len |-> len, calls |-> <<cmd>>]
             ELSE IF op # "DFU_OP_WRITE"
             THEN IF ~env.set
                  THEN [ret |-> -1, len |-> len,
                        calls |-> <<cmd, GetenvCall(env)>>]
                  ELSE [ret |-> 0, len |-> simple_strtoul(env.val),
                        calls |-> <<cmd, GetenvCall(env)>>]
             ELSE [ret |-> 0, len |-> len, calls |-> <<cmd>>]

\* the staged bytes handed to the command of a flush
Staged(buf, blen) == [i \in 1..blen |-> buf[i]]

\* the value of an unsigned int converted to long (same width)
ToLong(x) == IF x >= Word \div 2 THEN x - Word ELSE x

(***************************************************************************)
(* Entities (struct dfu_entity with its data.mmc part).                    *)
(***************************************************************************)
Entity(name, layout, start, size, blksz, hw, dev, part) ==
    [name |-> name, layout |-> layout, lba_start |-> start, lba_size |-> size,
     lba_blk_size |-> blksz, hw_partition |-> hw, dev |-> dev, part |-> part]

BlkSizes == {2 ^ k : k \in 0..MaxBlkShift}
Parts == 0..MaxPart
HwPartitions == {NoHwPartition, MaxPart}

\* raw entities as "raw <start> <size> [mmcpart <hw>]" and "part" leave them
RawEntities ==
    {Entity("R", RawLayout, s, n, b, hw, 0, 0) :
        s \in {1, Word - 1}, n \in 0..MaxLba,
        b \in BlkSizes, hw \in HwPartitions}

\* block indexes near the start of the device and around the u32 limit
BlockIndexes == (0..MaxLba) \cup ((Word - 2)..Word)

\* raw requests: entity, byte offset, length
RawRequests ==
    UNION {{[dfu |-> d, offset |-> q * d.lba_blk_size + r, len |-> l] :
              q \in BlockIndexes, r \in {0, d.lba_blk_size - 1},
              l \in 0..MaxLen} : d \in RawEntities}

EntA == Entity("A", "DFU_FS_FAT", 0, 0, 0, NoHwPartition, 0, 1)
EntB == Entity("B", "DFU_FS_EXT4", 0, 0, 0, NoHwPartition, 0, 2)
EntR == Entity("R", RawLayout, 1, MaxLba, 2, MaxPart, 0, 0)
EntX == Entity("X", "DFU_FS_EXT2", 0, 0, 0, NoHwPartition, 0, 1)
EntU == Entity("U", "UNSET", 0, 0, 0, 0, 0, 0)
Entities == {EntA, EntB, EntR, EntX, EntU}

\* the bytes a host sends for an entity: each entity's image has its own value
ImageByte(d) ==
    CASE d.name = "A" -> 1
      [] d.name = "B" -> 2
      [] OTHER -> 3
Image(d, n) == [i \in 1..n |-> ImageByte(d)]

\* values of the "filesize" environment variable: unset, or a hex numeral
EnvValues ==
    {[set |-> FALSE, val |-> <<>>]} \cup
    {[set |-> TRUE, val |-> ToHex(v)] : v \in {16 + MaxLen}}

\* what an uninitialized long may hold
Garbage == {-1, MaxLen + 1}

\* block counts a device may report for a transfer of count blocks
DeviceCounts(count) ==
    {count, U32(count + 1)} \cup (IF count > 0 THEN {count - 1} ELSE {})

\* answers of the device that a request on d can observe
SwitchAnswers(d) == IF IsRaw(d) /\ d.hw_partition >= 0 THEN SwitchResults ELSE {0}
CountAnswers(d, len) ==
    IF IsRaw(d)
    THEN DeviceCounts(blk_count(d, ALIGN(len, d.lba_blk_size)))
    ELSE {0}
CmdAnswers(d) == IF IsRaw(d) THEN {0} ELSE CmdResults
EnvAnswers(d) == IF IsRaw(d) THEN {[set |-> FALSE, val |-> <<>>]} ELSE EnvValues

\* what a caller and the device saw of an operation: the entity and the
\* length passed, the partition active at the call, the value returned, the
\* value left in *len and the external calls in order
Observation(op, d, len_in, ret, len, calls) ==
    [op |-> op, dfu |-> d, len_in |-> len_in, part_before |-> part_num,
     ret |-> ret, len |-> len, calls |-> calls]

Bump(x, n) == Min(x + n, Sat)

(***************************************************************************)
(* The four medium operations.                                             *)
(***************************************************************************)

\* dfu_write_medium_mmc(dfu, offset, buf, len); data are the bytes at buf
write_medium(d, offset, data, len, sw_in, n, sw_back) ==
    CASE d.layout = "DFU_RAW_ADDR" ->
            LET r == mmc_block_op("DFU_OP_WRITE", d, offset, len, part_num,
                                  sw_in, n, sw_back)
            IN  [ret |-> r.ret, len |-> r.len, part_num |-> r.part_num,
                 calls |-> r.calls, buf |-> dfu_file_buf,
                 buf_len |-> dfu_file_buf_len]
      [] d.layout \in {"DFU_FS_FAT", "DFU_FS_EXT4"} ->
            LET r == mmc_file_buffer(dfu_file_buf, dfu_file_buf_len, data, len)
            IN  [ret |-> r.ret, len |-> len, part_num |-> part_num,
                 calls |-> <<>>, buf |-> r.buf, buf_len |-> r.buf_len]
      [] OTHER ->
            [ret |-> -1, len |-> len, part_num |-> part_num, calls |-> <<>>,
             buf |-> dfu_file_buf, buf_len |-> dfu_file_buf_len]

\* the history after a write that returned ret and made the calls, with part
\* the partition active before it: the block range and the partition of a
\* block_write that succeeded, nothing after one that failed
NoWrite == [on |-> TRUE, done |-> FALSE, part |-> 0, start |-> 0, count |-> 0]
Wrote(ret, part, calls) ==
    LET W == {i \in DOMAIN calls : calls[i].fn = "block_write"}
        S == {i \in DOMAIN calls :
                 calls[i].fn = "mmc_switch_part" /\ calls[i].res = 0 /\
                 \A j \in W : i < j}
    IN  IF W = {} THEN wrote
        ELSE IF ret # 0 THEN NoWrite
        ELSE LET w == calls[CHOOSE i \in W : TRUE]
             IN  [on |-> TRUE, done |-> TRUE,
                  part  |-> IF S = {} THEN part
                            ELSE calls[CHOOSE i \in S : TRUE].part,
                  start |-> w.start, count |-> w.count]

dfu_write_medium_mmc(d, offset, data, len, sw_in, n, sw_back) ==
    LET r == write_medium(d, offset, data, len, sw_in, n, sw_back)
    IN  /\ dfu_file_buf' = r.buf
        /\ dfu_file_buf_len' = r.buf_len
        /\ part_num' = r.part_num
        /\ last' = Observation("write", d, len, r.ret, r.len, r.calls)
        /\ hist' =
             IF ~IsFs(d) THEN hist
             ELSE IF r.ret = 0
             THEN [sinceFlush |-> Bump(hist.sinceFlush, len),
                   sinceReset |-> Bump(hist.sinceReset, len)]
             ELSE [sinceFlush |-> 0, sinceReset |-> 0]
        /\ wrote' = IF wrote.on THEN Wrote(r.ret, part_num, r.calls) ELSE wrote
        /\ UNCHANGED arg

\* dfu_read_medium_mmc(dfu, offset, buf, len)
read_medium(d, offset, len, sw_in, n, sw_back, cmd_res, env) ==
    CASE d.layout = "DFU_RAW_ADDR" ->
            mmc_block_op("DFU_OP_READ", d, offset, len, part_num,
                         sw_in, n, sw_back)
      [] d.layout \in {"DFU_FS_FAT", "DFU_FS_EXT4"} ->
            LET r == mmc_file_op("DFU_OP_READ", d, "buf", len, <<>>,
                                 cmd_res, env)
            IN  [ret |-> r.ret, len |-> r.len, part_num |-> part_num,
                 calls |-> r.calls]
      [] OTHER ->
            [ret |-> -1, len |-> len, part_num |-> part_num, calls |-> <<>>]

dfu_read_medium_mmc(d, offset, len, sw_in, n, sw_back, cmd_res, env) ==
    LET r == read_medium(d, offset, len, sw_in, n, sw_back, cmd_res, env)
    IN  /\ part_num' = r.part_num
        /\ last' = Observation("read", d, len, r.ret, r.len, r.calls)
        /\ UNCHANGED <<dfu_file_buf, dfu_file_buf_len, hist, arg, wrote>>

\* dfu_flush_medium_mmc(dfu): the return value, dfu_file_buf_len and the calls
\* variant: the staged length is kept when the command fails
flush_len_mut(d, r) == IF r.ret = 0 THEN 0 ELSE dfu_file_buf_len
flush_len(d, r) == 0

\* variant: a flush of a raw entity drops the staged bytes
flush_medium_mut(d, cmd_res) ==
    IF d.layout # "DFU_RAW_ADDR"
    THEN LET r == mmc_file_op("DFU_OP_WRITE", d, "dfu_file_buf",
                              dfu_file_buf_len,
                              Staged(dfu_file_buf, dfu_file_buf_len),
                              cmd_res, [set |-> FALSE, val |-> <<>>])
         IN  [ret |-> r.ret, buf_len |-> flush_len(d, r), calls |-> r.calls]
    ELSE [ret |-> 0, buf_len |-> 0, calls |-> <<>>]
flush_medium(d, cmd_res) ==
    IF d.layout # "DFU_RAW_ADDR"
    THEN LET r == mmc_file_op("DFU_OP_WRITE", d, "dfu_file_buf",
                              dfu_file_buf_len,
                              Staged(dfu_file_buf, dfu_file_buf_len),
                              cmd_res, [set |-> FALSE, val |-> <<>>])
         IN  [ret |-> r.ret, buf_len |-> flush_len(d, r), calls |-> r.calls]
    ELSE [ret |-> 0, buf_len |-> dfu_file_buf_len, calls |-> <<>>]

dfu_flush_medium_mmc(d, cmd_res) ==
    LET r == flush_medium(d, cmd_res)
    IN  /\ dfu_file_buf_len' = r.buf_len
        /\ last' = Observation("flush", d, 0, r.ret, 0, r.calls)
        /\ hist' =
             [sinceFlush |-> 0,
              sinceReset |-> IF IsRaw(d) THEN hist.sinceReset ELSE 0]
        /\ UNCHANGED <<dfu_file_buf, part_num, arg, wrote>>

\* dfu_get_medium_size_mmc(dfu); junk is the value of the uninitialized len
get_medium_size(d, cmd_res, env, junk) ==
    CASE d.layout = "DFU_RAW_ADDR" ->
            [ret |-> ToLong(U32(d.lba_size * d.lba_blk_size)), calls |-> <<>>]
      [] d.layout \in {"DFU_FS_FAT", "DFU_FS_EXT4"} ->
            LET r == mmc_file_op("DFU_OP_SIZE", d, "", junk, <<>>,
                                 cmd_res, env)
            IN  IF r.ret < 0
                THEN [ret |-> r.ret, calls |-> r.calls]
                ELSE [ret |-> r.len, calls |-> r.calls]
      [] OTHER -> [ret |-> -1, calls |-> <<>>]

dfu_get_medium_size_mmc(d, cmd_res, env, junk) ==
    LET r == get_medium_size(d, cmd_res, env, junk)
    IN  /\ last' = Observation("size", d, 0, r.ret, 0, r.calls)
        /\ UNCHANGED <<dfu_file_buf, dfu_file_buf_len, part_num, hist, arg,
                       wrote>>

(***************************************************************************)
(* Specifications.                                                         *)
(***************************************************************************)
NoEntity == Entity("", "UNSET", 0, 0, 0, 0, 0, 0)

InitCommon ==
    /\ dfu_file_buf = [i \in 1..CONFIG_SYS_DFU_MAX_FILE_SIZE |-> 0]
    /\ dfu_file_buf_len = 0
    /\ last = [op |-> "none", dfu |-> NoEntity, len_in |-> 0,
               part_before |-> 0, ret |-> 0, len |-> 0, calls |-> <<>>]
    /\ hist = [sinceFlush |-> 0, sinceReset |-> 0]

\* the history of raw writes switched off
NoHistory == [NoWrite EXCEPT !.on = FALSE]

\* any sequence of operations on the entities of a session
Init ==
    /\ InitCommon
    /\ wrote = NoHistory
    /\ part_num = 0
    /\ arg = [dfu |-> NoEntity, offset |-> 0, len |-> 0]

\* the requests of a session: writes of up to one byte more than the staging
\* buffer holds, reads and raw accesses at the start of the area
WriteLens(d) == IF IsFs(d) THEN 0..MaxWrite ELSE {1}
ReadLens(d) == {1}

Write ==
    \E d \in Entities, offset \in {0} :
     \E len \in WriteLens(d) :
      \E sw_in \in SwitchAnswers(d), sw_back \in SwitchAnswers(d),
         n \in CountAnswers(d, len) :
        dfu_write_medium_mmc(d, offset, Image(d, len), len, sw_in, n, sw_back)

Read ==
    \E d \in Entities, offset \in {0} :
     \E len \in ReadLens(d) :
      \E sw_in \in SwitchAnswers(d), sw_back \in SwitchAnswers(d),
         n \in CountAnswers(d, len), cmd_res \in CmdAnswers(d),
         env \in EnvAnswers(d) :
        dfu_read_medium_mmc(d, offset, len, sw_in, n, sw_back, cmd_res, env)

Flush ==
    \E d \in Entities :
      \E cmd_res \in CmdAnswers(d) :
        dfu_flush_medium_mmc(d, cmd_res)

Size ==
    \E d \in Entities :
      \E cmd_res \in CmdAnswers(d), env \in EnvAnswers(d), junk \in Garbage :
        dfu_get_medium_size_mmc(d, cmd_res, env, junk)

Next == Write \/ Read \/ Flush \/ Size

Spec == Init /\ [][Next]_vars

\* one raw request, drawn from the whole range of entities and offsets,
\* issued as a write or as a read against any answers of the device
InitRaw ==
    /\ InitCommon
    /\ wrote = NoHistory
    /\ part_num \in Parts
    /\ arg \in RawRequests

RawWrite ==
    \E sw_in \in SwitchAnswers(arg.dfu), sw_back \in SwitchAnswers(arg.dfu),
       n \in CountAnswers(arg.dfu, arg.len) :
        dfu_write_medium_mmc(arg.dfu, arg.offset, Image(arg.dfu, arg.len),
                             arg.len, sw_in, n, sw_back)

RawRead ==
    \E sw_in \in SwitchAnswers(arg.dfu), sw_back \in SwitchAnswers(arg.dfu),
       n \in CountAnswers(arg.dfu, arg.len) :
        dfu_read_medium_mmc(arg.dfu, arg.offset, arg.len, sw_in, n, sw_back,
                            0, [set |-> FALSE, val |-> <<>>])

NextRaw == RawWrite \/ RawRead

SpecRaw == InitRaw /\ [][NextRaw]_vars

\* raw entities of every size the lba_size field holds
SizeEntities ==
    {Entity("R", RawLayout, s, n, b, NoHwPartition, 0, 0) :
        s \in {0, 1, Word - 1}, n \in 0..(Word - 1), b \in BlkSizes}

\* one raw entity, asked for its size
InitSize ==
    /\ InitCommon
    /\ wrote = NoHistory
    /\ part_num = 0
    /\ arg \in {[dfu |-> d, offset |-> 0, len |-> 0] : d \in SizeEntities}

RawSize ==
    \E junk \in Garbage :
        dfu_get_medium_size_mmc(arg.dfu, 0, [set |-> FALSE, val |-> <<>>], junk)

NextSize == RawSize

SpecSize == InitSize /\ [][NextSize]_vars

(***************************************************************************)
(* dfu_fill_entity_mmc.  A C string is the sequence of its characters, or  *)
(* NULL; a descriptor is cut into tokens and its numerals are parsed as    *)
(* the code does it.                                                       *)
(***************************************************************************)
NULL == [null |-> TRUE, chars |-> <<>>]
Str(cs) == [null |-> FALSE, chars |-> cs]

\* strsep(&s, " "): the token up to the first space, and what s is left as
strsep(s) ==
    IF s.null THEN [tok |-> NULL, rest |-> NULL]
    ELSE LET D == {i \in DOMAIN s.chars : s.chars[i] = " "}
         IN  IF D = {} THEN [tok |-> s, rest |-> NULL]
             ELSE LET i == CHOOSE i \in D : \A j \in D : i <= j
                  IN  [tok  |-> Str(SubSeq(s.chars, 1, i - 1)),
                       rest |-> Str(SubSeq(s.chars, i + 1, Len(s.chars)))]

\* strcmp(a, b) is 0 exactly for equal strings
strcmp(a, b) == IF a = b THEN 0 ELSE 1

HexDigits ==
    <<"0", "1", "2", "3", "4", "5", "6", "7", "8", "9",
      "a", "b", "c", "d", "e", "f">>
isxdigit(c) == \E i \in DOMAIN HexDigits : HexDigits[i] = c
DigitValue(c) == (CHOOSE i \in DOMAIN HexDigits : HexDigits[i] = c) - 1

\* the digits of cs read in the base, up to the first character that is not
\* a digit of that base, as an unsigned long
RECURSIVE strtoul_digits(_, _, _)
strtoul_digits(cs, base, result) ==
    IF cs = <<>> THEN result
    ELSE IF ~isxdigit(Head(cs)) THEN result
    ELSE IF DigitValue(Head(cs)) >= base THEN result
    ELSE strtoul_digits(Tail(cs), base,
                        U32(result * base + DigitValue(Head(cs))))

\* variant: every numeral is read in base 10
strtoul_base0_mut(cs) == strtoul_digits(cs, 10, 0)
\* simple_strtoul(cp, NULL, 0): a prefix 0x selects base 16, a prefix 0
\* base 8, and base 10 is the default
strtoul_base0(cs) ==
    IF cs # <<>> /\ cs[1] = "0"
    THEN IF Len(cs) >= 3 /\ cs[2] = "x" /\ isxdigit(cs[3])
         THEN strtoul_digits(SubSeq(cs, 3, Len(cs)), 16, 0)
         ELSE strtoul_digits(Tail(cs), 8, 0)
    ELSE strtoul_digits(cs, 10, 0)

\* the value of an unsigned long stored in an int
ToInt(x) == IF U32(x) >= Word \div 2 THEN U32(x) - Word ELSE U32(x)

S_raw == <<"r", "a", "w">>
S_part == <<"p", "a", "r", "t">>
S_fat == <<"f", "a", "t">>
S_ext4 == <<"e", "x", "t", "4">>
S_mmcpart == <<"m", "m", "c", "p", "a", "r", "t">>

\* an entity as dfu_fill_entity hands it over: zeroed, with name and dev_num
BlankEntity ==
    [name |-> "E", layout |-> "UNSET", lba_start |-> 0, lba_size |-> 0,
     lba_blk_size |-> 0, hw_partition |-> 0, dev |-> 0, part |-> 0,
     dev_num |-> 0, ops |-> FALSE]

\* mmc is what find_mmc_device answers: found or not, and mmc->read_bl_len
FindCall(dev_num, mmc) ==
    [fn |-> "find_mmc_device", dev_num |-> dev_num, res |-> mmc]
InitCall(res) == [fn |-> "mmc_init", res |-> res]
PartCall(part, info) == [fn |-> "get_partition_info", part |-> part, res |-> info]

\* dfu_fill_entity_mmc(dfu, s): mmc, init_res and info are the answers of
\* find_mmc_device, mmc_init and get_partition_info; wild is what
\* simple_strtoul makes of a NULL pointer ("mmcpart" with nothing behind it).
\* The result is the return value, the entity and the calls made; ops tells
\* whether the four medium operations were installed.
fill_entity(dfu, s, mmc, init_res, info, wild) ==
    LET a1   == strsep(Str(s))
        a2   == strsep(a1.rest)
        a3   == strsep(a2.rest)
        rest == a3.rest
        entity_type == a1.tok.chars
        second_arg  == strtoul_base0(a2.tok.chars)
        third_arg   == strtoul_base0(a3.tok.chars)
        find == FindCall(dfu.dev_num, mmc)
        init == InitCall(init_res)
        d0   == [dfu EXCEPT !.hw_partition = -EINVAL]
        nonraw(d) == [d EXCEPT !.dev = second_arg, !.part = third_arg]
        install(d) == [d EXCEPT !.ops = TRUE]
    IN  IF a1.tok.null \/ a2.tok.null \/ a3.tok.null
        THEN [ret |-> -ENODEV, dfu |-> dfu, calls |-> <<>>]
        ELSE IF ~mmc.found
        THEN [ret |-> -ENODEV, dfu |-> dfu, calls |-> <<find>>]
        ELSE IF init_res # 0
        THEN [ret |-> -ENODEV, dfu |-> dfu, calls |-> <<find, init>>]
        ELSE IF strcmp(entity_type, S_raw) = 0
        THEN LET d1  == [d0 EXCEPT !.layout = "DFU_RAW_ADDR",
                                   !.lba_start = second_arg,
                                   !.lba_size = third_arg,
                                   !.lba_blk_size = mmc.read_bl_len]
                 sfx == strsep(rest)
                 num == IF sfx.rest.null THEN wild
                        ELSE strtoul_base0(sfx.rest.chars)
                 d2  == IF ~rest.null /\ strcmp(sfx.tok.chars, S_mmcpart) = 0
                        THEN [d1 EXCEPT !.hw_partition = ToInt(num)]
                        ELSE d1
             IN  [ret |-> 0, dfu |-> install(d2), calls |-> <<find, init>>]
        ELSE IF strcmp(entity_type, S_part) = 0
        THEN LET get == PartCall(ToInt(third_arg), info)
                 d1  == [d0 EXCEPT !.layout = "DFU_RAW_ADDR",
                                   !.lba_start = info.start,
                                   !.lba_size = info.size,
                                   !.lba_blk_size = info.blksz]
             IN  IF ~info.ok
                 THEN [ret |-> -ENODEV, dfu |-> d0,
                       calls |-> <<find, init, get>>]
                 ELSE [ret |-> 0, dfu |-> install(nonraw(d1)),
                       calls |-> <<find, init, get>>]
        ELSE IF strcmp(entity_type, S_fat) = 0
        THEN [ret |-> 0,
              dfu |-> install(nonraw([d0 EXCEPT !.layout = "DFU_FS_FAT"])),
              calls |-> <<find, init>>]
        ELSE IF strcmp(entity_type, S_ext4) = 0
        THEN [ret |-> 0,
              dfu |-> install(nonraw([d0 EXCEPT !.layout = "DFU_FS_EXT4"])),
              calls |-> <<find, init>>]
        ELSE [ret |-> -ENODEV, dfu |-> d0, calls |-> <<find, init>>]

dfu_fill_entity_mmc(dfu, s, mmc, init_res, info, wild) ==
    LET r == fill_entity(dfu, s, mmc, init_res, info, wild)
    IN  /\ last' = Observation("fill", r.dfu, 0, r.ret, 0, r.calls)
        /\ UNCHANGED <<dfu_file_buf, dfu_file_buf_len, part_num, hist, arg,
                       wrote>>

(***************************************************************************)
(* Descriptors.  A descriptor is written out from its form: the type word, *)
(* up to two numbers in decimal, hex (0x..) or octal (0..) notation, and   *)
(* what follows them.                                                      *)
(***************************************************************************)
RECURSIVE DigitsOf(_, _)
DigitsOf(n, base) ==
    IF n < base THEN <<HexDigits[n + 1]>>
    ELSE Append(DigitsOf(n \div base, base), HexDigits[(n % base) + 1])

Numeral(n, style) ==
    CASE style = "hex" -> <<"0", "x">> \o DigitsOf(n, 16)
      [] style = "oct" -> <<"0">> \o DigitsOf(n, 8)
      [] OTHER -> DigitsOf(n, 10)

TypeWord(kind) ==
    CASE kind = "raw" -> S_raw
      [] kind = "part" -> S_part
      [] kind = "fat" -> S_fat
      [] kind = "ext4" -> S_ext4
      [] kind = "rawx" -> S_raw \o <<"x">>
      [] kind = "xyz" -> <<"x", "y", "z">>
      [] OTHER -> <<>>

RECURSIVE JoinTokens(_)
JoinTokens(ts) ==
    IF ts = <<>> THEN <<>>
    ELSE IF Len(ts) = 1 THEN ts[1]
    ELSE ts[1] \o <<" ">> \o JoinTokens(Tail(ts))

\* the tokens of a form: n leading tokens and the suffix
TokensOf(f) ==
    SubSeq(<<TypeWord(f.kind), Numeral(f.a, f.style), Numeral(f.b, f.style)>>,
           1, f.n)
    \o (CASE f.suffix = "mmcpart" -> <<S_mmcpart, Numeral(f.p, f.style)>>
          [] f.suffix = "bare" -> <<S_mmcpart>>
          [] OTHER -> <<>>)

Descriptor(f) == JoinTokens(TokensOf(f))

Form(kind, n, a, b, style, suffix, p) ==
    [kind |-> kind, n |-> n, a |-> a, b |-> b, style |-> style,
     suffix |-> suffix, p |-> p]

KnownKinds == {"raw", "part", "fat", "ext4"}
Styles == {"dec", "hex", "oct"}
FillNumbers == {0, 1, Word - 4}
\* hardware partition numbers written behind "mmcpart"
FillParts == {0, MaxPart, Word - 1}

FillForms ==
    {Form(k, 3, a, b, st, "none", 0) :
        k \in KnownKinds \cup {"xyz", "rawx"}, a \in FillNumbers,
        b \in FillNumbers, st \in Styles}
    \cup {Form(k, 3, 1, MaxLba, st, "mmcpart", p) :
            k \in {"raw", "fat"}, st \in Styles, p \in FillParts}
    \cup {Form("raw", 3, 1, MaxLba, "dec", "bare", 0)}
    \cup {Form(k, n, 1, 1, "dec", "none", 0) :
            k \in {"raw", "fat", "xyz", ""}, n \in 1..2}

\* the answers of find_mmc_device, mmc_init and get_partition_info
MmcAnswers ==
    {[found |-> FALSE, read_bl_len |-> 0]} \cup
    {[found |-> TRUE, read_bl_len |-> b] : b \in BlkSizes}
InitResults == {0, -1}
PartAnswers ==
    {[ok |-> FALSE, start |-> 0, size |-> 0, blksz |-> 0],
     [ok |-> TRUE, start |-> MaxLba, size |-> Word - 1, blksz |-> 1]}
WildAnswers(f) == IF f.suffix = "bare" THEN {0, Word - 1} ELSE {0}

\* one descriptor, handed to dfu_fill_entity_mmc with a zeroed entity
InitFill ==
    /\ InitCommon
    /\ wrote = NoHistory
    /\ part_num = 0
    /\ arg \in {[dfu |-> BlankEntity, offset |-> 0, len |-> 0,
                 form |-> f, s |-> Descriptor(f)] : f \in FillForms}

Fill ==
    \E mmc \in MmcAnswers, init_res \in InitResults, info \in PartAnswers,
       wild \in WildAnswers(arg.form) :
        dfu_fill_entity_mmc(arg.dfu, arg.s, mmc, init_res, info, wild)

NextFill == Fill

SpecFill == InitFill /\ [][NextFill]_vars

(***************************************************************************)
(* A raw entity written and read back at one offset and length, with reads *)
(* of a second raw entity on the same device in between.                   *)
(***************************************************************************)
TripEntities ==
    {Entity("R", RawLayout, 1, MaxLba, b, hw, 0, 0) :
        b \in BlkSizes, hw \in HwPartitions}

\* requests within the area of the entity
TripRequests ==
    {r \in [dfu : TripEntities, offset : 0..(MaxLba * 2 ^ MaxBlkShift),
            len : 1..MaxLen] :
        /\ r.offset % r.dfu.lba_blk_size = 0
        /\ r.offset + r.len <= MaxLba * r.dfu.lba_blk_size}

\* the other entity: the same blocks, reached with the other setting of the
\* hardware partition
Sibling(d) ==
    [d EXCEPT !.name = "S",
              !.hw_partition = IF d.hw_partition >= 0 THEN NoHwPartition
                               ELSE MaxPart]

InitTrip ==
    /\ InitCommon
    /\ wrote = NoWrite
    /\ part_num \in Parts
    /\ arg \in TripRequests

TripWrite == RawWrite

TripRead == RawRead

TripOther ==
    \E sw_in \in SwitchAnswers(Sibling(arg.dfu)),
       sw_back \in SwitchAnswers(Sibling(arg.dfu)),
       n \in CountAnswers(Sibling(arg.dfu), 1) :
        dfu_read_medium_mmc(Sibling(arg.dfu), 0, 1, sw_in, n, sw_back,
                            0, [set |-> FALSE, val |-> <<>>])

NextTrip == TripWrite \/ TripRead \/ TripOther

SpecTrip == InitTrip /\ [][NextTrip]_vars

(***************************************************************************)
(* Reading an observation.                                                 *)
(***************************************************************************)
IsBlockCall(c) == c.fn \in {"block_read", "block_write"}
IsSwitchCall(c) == c.fn = "mmc_switch_part"
IsCmdCall(c) == c.fn = "run_command"

BlockCallsOf(o) == SelectSeq(o.calls, IsBlockCall)
CmdCallsOf(o) == SelectSeq(o.calls, IsCmdCall)

IsRawAccess(o) == o.op \in {"read", "write"} /\ IsRaw(o.dfu)

\* the block transfer took place and the device reported another count
TransferFailed(o) ==
    \E i \in DOMAIN o.calls :
        IsBlockCall(o.calls[i]) /\ o.calls[i].res # o.calls[i].count

\* the switch back to the partition recorded at the call was tried and failed
SwitchBackFailed(o) ==
    \E i \in DOMAIN o.calls :
        /\ IsSwitchCall(o.calls[i])
        /\ o.calls[i].part = o.part_before
        /\ o.calls[i].res # 0

SwitchBackDone(o) ==
    \E i \in DOMAIN o.calls :
        /\ IsSwitchCall(o.calls[i])
        /\ o.calls[i].part = o.part_before
        /\ o.calls[i].res = 0

\* blocks [start, start + count) lie in the area of d (as integers)
WithinArea(d, start, count) ==
    count = 0 \/ (d.lba_start <= start /\
                  start + count <= d.lba_start + d.lba_size)

CeilDiv(a, b) == (a + b - 1) \div b

(***************************************************************************)
(* C1.  Every block_read/block_write that a raw read or write issues       *)
(* transfers a block range that lies within                                *)
(* [lba_start, lba_start + lba_size) of the entity.                        *)
(* The u32 sums of mmc_block_op wrap, so a large offset reaches blocks     *)
(* outside the area.                                                       *)
(***************************************************************************)
C1_TransferWithinArea ==
    IsRawAccess(last) =>
        \A i \in DOMAIN last.calls :
            IsBlockCall(last.calls[i]) =>
                WithinArea(last.dfu, last.calls[i].start, last.calls[i].count)

(***************************************************************************)
(* C2.  A raw read or write whose computed block range (blk_start,         *)
(* blk_count) is not within the entity's area returns -EINVAL and makes no *)
(* call to the device: no transfer, no partition switch, and the active    *)
(* partition is the one before the call.                                   *)
(***************************************************************************)
C2_OutOfRangeNoAccess ==
    (/\ IsRawAccess(last)
     /\ last.dfu = arg.dfu
     /\ ~WithinArea(last.dfu, blk_start(last.dfu, arg.offset),
                    blk_count(last.dfu, last.len)))
    => (/\ last.ret = -EINVAL
        /\ last.calls = <<>>
        /\ part_num = last.part_before)

(***************************************************************************)
(* C3.  A raw read or write leaves ceil(L / lba_blk_size) * lba_blk_size   *)
(* in *len, and every block transfer it issues is for                      *)
(* ceil(L / lba_blk_size) blocks.                                          *)
(***************************************************************************)
C3_AlignedLength ==
    IsRawAccess(last) =>
        LET k == CeilDiv(last.len_in, last.dfu.lba_blk_size)
        IN  /\ last.len = k * last.dfu.lba_blk_size
            /\ \A i \in DOMAIN last.calls :
                   IsBlockCall(last.calls[i]) => last.calls[i].count = k

C3_Witness ==
    /\ IsRawAccess(last)
    /\ last.len_in % last.dfu.lba_blk_size # 0
    /\ last.len_in > last.dfu.lba_blk_size
    /\ Len(BlockCallsOf(last)) = 1
    /\ last.ret = 0

(***************************************************************************)
(* C4.  After a raw read or write on an entity with a hardware partition   *)
(* set, whatever the block transfer reported, the active partition is the  *)
(* one that was active before the call, unless the switch back was tried   *)
(* and failed.                                                             *)
(***************************************************************************)
C4_PartitionRestored ==
    (/\ IsRawAccess(last)
     /\ last.dfu.hw_partition >= 0
     /\ ~SwitchBackFailed(last))
    => part_num = last.part_before

C4_Witness ==
    /\ IsRawAccess(last)
    /\ last.dfu.hw_partition >= 0
    /\ last.dfu.hw_partition # last.part_before
    /\ TransferFailed(last)
    /\ SwitchBackDone(last)
    /\ part_num = last.part_before

(***************************************************************************)
(* C5.  When the block transfer fails and the switch back fails too, the   *)
(* result differs from -EIO, the result of a failed transfer whose         *)
(* partition was restored.  mmc_block_op drops the result of that switch.  *)
(***************************************************************************)
C5_RestoreFailureReported ==
    (/\ IsRawAccess(last)
     /\ TransferFailed(last)
     /\ SwitchBackFailed(last))
    => last.ret # -EIO

(***************************************************************************)
(* C6.  A write of n bytes to a filesystem-layout entity with c bytes      *)
(* staged: if c + n exceeds the capacity it fails, the staged length       *)
(* becomes 0 and nothing is copied; otherwise (c + n equal to the capacity *)
(* included) it succeeds, the n bytes are copied at position c, the bytes  *)
(* before them stay, and the staged length becomes c + n.                  *)
(***************************************************************************)
C6_FileWrite ==
    [][(last'.op = "write" /\ IsFs(last'.dfu)) =>
        LET c == dfu_file_buf_len
            n == last'.len_in
        IN  IF c + n > CONFIG_SYS_DFU_MAX_FILE_SIZE
            THEN /\ last'.ret # 0
                 /\ dfu_file_buf_len' = 0
                 /\ dfu_file_buf' = dfu_file_buf
            ELSE /\ last'.ret = 0
                 /\ dfu_file_buf_len' = c + n
                 /\ \A i \in 1..n : dfu_file_buf'[c + i] = ImageByte(last'.dfu)
                 /\ \A i \in 1..c : dfu_file_buf'[i] = dfu_file_buf[i]]_vars

C6_Witness ==
    /\ last.op = "write"
    /\ IsFs(last.dfu)
    /\ last.ret = 0
    /\ last.len_in > 0
    /\ last.len_in < CONFIG_SYS_DFU_MAX_FILE_SIZE
    /\ dfu_file_buf_len = CONFIG_SYS_DFU_MAX_FILE_SIZE

(***************************************************************************)
(* C7.  In every state reachable by writes, reads, flushes and size        *)
(* queries on any entities, 0 <= dfu_file_buf_len <= capacity.             *)
(***************************************************************************)
C7_StagedLengthBounded ==
    0 <= dfu_file_buf_len /\ dfu_file_buf_len <= CONFIG_SYS_DFU_MAX_FILE_SIZE

C7_Witness ==
    /\ dfu_file_buf_len = CONFIG_SYS_DFU_MAX_FILE_SIZE
    /\ last.op = "size"
    /\ hist.sinceFlush = 0

(***************************************************************************)
(* C8.  A flush of a filesystem-layout entity runs the filesystem write    *)
(* command exactly once, with the length that is the sum of the lengths of *)
(* the writes accepted since the last flush or overflow reset, and leaves  *)
(* the staged length 0 whether the command succeeded or not.               *)
(* As stated (since the last flush of any entity) it fails: a flush of a   *)
(* raw entity leaves the staged bytes in place.  It holds counting from    *)
(* the last flush of an entity that is not raw.                            *)
(***************************************************************************)
FlushedLengths(o) ==
    [i \in DOMAIN CmdCallsOf(o) |-> simple_strtoul(CmdCallsOf(o)[i].len)]

C8_FlushSinceAnyFlush ==
    [][(last'.op = "flush" /\ IsFs(last'.dfu)) =>
        /\ FlushedLengths(last') = <<hist.sinceFlush>>
        /\ CmdCallsOf(last')[1].op = "write"
        /\ dfu_file_buf_len' = 0]_vars

C8_FlushSinceReset ==
    [][(last'.op = "flush" /\ IsFs(last'.dfu)) =>
        /\ FlushedLengths(last') = <<hist.sinceReset>>
        /\ CmdCallsOf(last')[1].op = "write"
        /\ dfu_file_buf_len' = 0]_vars

C8_Witness ==
    /\ last.op = "flush"
    /\ IsFs(last.dfu)
    /\ FlushedLengths(last) = <<CONFIG_SYS_DFU_MAX_FILE_SIZE>>
    /\ last.ret # 0
    /\ dfu_file_buf_len = 0

(***************************************************************************)
(* C9.  Staged data does not leak between entities: the bytes that a flush *)
(* of a filesystem-layout entity hands to the filesystem writer are bytes  *)
(* written to that entity, none of them a byte written to another one.     *)
(* There is one staging buffer for all entities, so it fails.              *)
(***************************************************************************)
C9_NoLeakBetweenEntities ==
    (last.op = "flush" /\ IsFs(last.dfu)) =>
        \A i \in DOMAIN last.calls :
            IsCmdCall(last.calls[i]) =>
                \A j \in DOMAIN last.calls[i].data :
                    last.calls[i].data[j] = ImageByte(last.dfu)

(***************************************************************************)
(* C10.  On an entity whose layout is neither raw, FAT nor ext4, each of   *)
(* write, read, flush and size returns a negative value and makes no       *)
(* external call.                                                          *)
(***************************************************************************)
C10_UnsupportedLayout ==
    (last.op \in {"write", "read", "flush", "size"} /\ IsOther(last.dfu)) =>
        (last.ret < 0 /\ last.calls = <<>>)

C10_Witness ==
    /\ last.op = "flush"
    /\ IsOther(last.dfu)
    /\ last.ret = -1
    /\ hist.sinceFlush = 0
    /\ dfu_file_buf[1] # 0

(***************************************************************************)
(* C14.  For a raw read or write on an entity with a hardware partition    *)
(* set: if the switch into that partition fails, the switch error is       *)
(* returned, no block_read/block_write is issued and the active partition  *)
(* is the one before the call; and every block transfer is issued while    *)
(* the entity's hardware partition is the active one.                      *)
(***************************************************************************)
\* the partition active when call i of the observation was made
ActiveAt(o, i) ==
    LET S == {j \in 1..(i - 1) :
                 IsSwitchCall(o.calls[j]) /\ o.calls[j].res = 0}
    IN  IF S = {} THEN o.part_before
        ELSE o.calls[CHOOSE j \in S : \A k \in S : k <= j].part

\* the switch into the entity's partition was tried and failed
SwitchInFailed(o) ==
    /\ o.calls # <<>>
    /\ IsSwitchCall(o.calls[1])
    /\ o.calls[1].part = o.dfu.hw_partition
    /\ o.calls[1].res # 0

C14_SwitchBeforeTransfer ==
    (IsRawAccess(last) /\ last.dfu.hw_partition >= 0) =>
        /\ SwitchInFailed(last) =>
               /\ last.ret = last.calls[1].res
               /\ BlockCallsOf(last) = <<>>
               /\ part_num = last.part_before
        /\ \A i \in DOMAIN last.calls :
               IsBlockCall(last.calls[i]) =>
                   ActiveAt(last, i) = last.dfu.hw_partition

C14_Witness ==
    /\ IsRawAccess(last)
    /\ last.dfu.hw_partition >= 0
    /\ last.dfu.hw_partition # last.part_before
    /\ SwitchInFailed(last)
    /\ Len(last.calls) = 1
    /\ last.ret \in SwitchErrors

(***************************************************************************)
(* C15.  A raw read or write returns 0 only if it issued one block         *)
(* transfer and the device reported exactly the count asked for; whenever  *)
(* the device reports another count, smaller or larger, the result is      *)
(* -EIO.                                                                   *)
(***************************************************************************)
C15_ExactCountOrEIO ==
    IsRawAccess(last) =>
        /\ last.ret = 0 =>
               /\ Len(BlockCallsOf(last)) = 1
               /\ BlockCallsOf(last)[1].res = BlockCallsOf(last)[1].count
        /\ TransferFailed(last) => last.ret = -EIO

C15_Witness ==
    /\ IsRawAccess(last)
    /\ Len(BlockCallsOf(last)) = 1
    /\ BlockCallsOf(last)[1].res > BlockCallsOf(last)[1].count
    /\ BlockCallsOf(last)[1].count > 0
    /\ last.ret = -EIO

(***************************************************************************)
(* C16.  In any sequence of operations: a filesystem write command is      *)
(* issued only by a flush of a filesystem-layout entity; a write to a      *)
(* filesystem-layout entity makes no external call; and a read or write on *)
(* a raw entity leaves the staging buffer and the staged length as they    *)
(* were.                                                                   *)
(***************************************************************************)
IssuesWriteCommand(o) ==
    \E i \in DOMAIN o.calls :
        IsCmdCall(o.calls[i]) /\ o.calls[i].op = "write"

C16_WriteCommandOnlyFromFlush ==
    [][/\ IssuesWriteCommand(last') =>
              (last'.op = "flush" /\ IsFs(last'.dfu))
       /\ (last'.op = "write" /\ IsFs(last'.dfu)) => last'.calls = <<>>
       /\ (IsRawAccess(last')) =>
              /\ dfu_file_buf' = dfu_file_buf
              /\ dfu_file_buf_len' = dfu_file_buf_len]_vars

C16_Witness ==
    /\ last.op = "write"
    /\ IsRaw(last.dfu)
    /\ Len(BlockCallsOf(last)) = 1
    /\ dfu_file_buf_len > 0
    /\ dfu_file_buf[1] = ImageByte(EntA)

(***************************************************************************)
(* C17.  A flush of a raw entity returns 0, makes no external call and     *)
(* leaves the staged length and the staged bytes as they were, also when   *)
(* bytes written to a filesystem-layout entity are staged.                 *)
(***************************************************************************)
C17_RawFlushNoOp ==
    [][(last'.op = "flush" /\ IsRaw(last'.dfu)) =>
        /\ last'.ret = 0
        /\ last'.calls = <<>>
        /\ dfu_file_buf_len' = dfu_file_buf_len
        /\ dfu_file_buf' = dfu_file_buf]_vars

C17_Witness ==
    /\ last.op = "flush"
    /\ IsRaw(last.dfu)
    /\ last.ret = 0
    /\ dfu_file_buf_len = CONFIG_SYS_DFU_MAX_FILE_SIZE
    /\ hist.sinceReset = CONFIG_SYS_DFU_MAX_FILE_SIZE

(***************************************************************************)
(* C18.  A read on a filesystem-layout entity runs the load command once.  *)
(* If the command succeeds and "filesize" is set, the read returns 0 and   *)
(* the length reported is the number that "filesize" spells in hex; if     *)
(* "filesize" is not set the read returns a negative value; if the command *)
(* fails, "filesize" is not asked for and the read returns a value other   *)
(* than 0.                                                                 *)
(***************************************************************************)
IsGetenvCall(c) == c.fn = "getenv"
GetenvCallsOf(o) == SelectSeq(o.calls, IsGetenvCall)

C18_FileReadLength ==
    (last.op = "read" /\ IsFs(last.dfu)) =>
        LET cmds == CmdCallsOf(last)
            envs == GetenvCallsOf(last)
        IN  /\ Len(cmds) = 1
            /\ cmds[1].op = "load"
            /\ IF cmds[1].res # 0
               THEN envs = <<>> /\ last.ret # 0
               ELSE /\ Len(envs) = 1
                    /\ envs[1].name = "filesize"
                    /\ IF envs[1].res.set
                       THEN last.ret = 0 /\ ToHex(last.len) = envs[1].res.val
                       ELSE last.ret < 0

C18_Witness ==
    /\ last.op = "read"
    /\ IsFs(last.dfu)
    /\ last.ret = 0
    /\ Len(GetenvCallsOf(last)) = 1
    /\ last.len = 16 + MaxLen
    /\ last.len # last.len_in

(***************************************************************************)
(* C20.  A size query on a filesystem-layout entity returns a negative     *)
(* value whenever the size command reports a status other than 0 or        *)
(* "filesize" is not set.                                                  *)
(* A positive status passes the test ret < 0 of dfu_get_medium_size_mmc,   *)
(* which then returns len, never assigned.                                 *)
(***************************************************************************)
C20_SizeFailureNegative ==
    (/\ last.op = "size"
     /\ IsFs(last.dfu)
     /\ \/ \E i \in DOMAIN last.calls :
               IsCmdCall(last.calls[i]) /\ last.calls[i].res # 0
        \/ \E i \in DOMAIN last.calls :
               IsGetenvCall(last.calls[i]) /\ ~last.calls[i].res.set)
    => last.ret < 0

(***************************************************************************)
(* C11.  A size query on a raw entity returns the product                  *)
(* lba_size * lba_blk_size of the two fields as integers, whatever         *)
(* lba_start is, and makes no external call.                               *)
(* The product is computed in unsigned int and converted to long: it wraps *)
(* for a medium of 2^32 bytes or more, and is negative from 2^31 bytes on  *)
(* where long has 32 bits.                                                 *)
(***************************************************************************)
C11_RawSizeIsProduct ==
    (last.op = "size" /\ IsRaw(last.dfu)) =>
        /\ last.ret = last.dfu.lba_size * last.dfu.lba_blk_size
        /\ last.calls = <<>>

(***************************************************************************)
(* C12.  With the device found and initialized, dfu_fill_entity_mmc        *)
(* returns 0, installs the medium operations and sets, for "raw S N": the  *)
(* raw layout, lba_start = S, lba_size = N, lba_blk_size = the device's    *)
(* read_bl_len and no hardware partition; for "raw S N mmcpart P": the     *)
(* same with hardware partition P; for "part D I" with partition I found:  *)
(* the raw layout with the start, size and block size of partition I and   *)
(* no hardware partition; for "fat D P" / "ext4 D P": the FAT / ext4       *)
(* layout with dev = D and part = P.                                       *)
(* hw_partition is an int that is negative for "none", and I is passed on  *)
(* as an int: as stated, for every P and I, it fails for a P or I of half  *)
(* the word or more; it holds for those below.                             *)
(***************************************************************************)
DeviceReady(o) ==
    /\ Len(o.calls) >= 2
    /\ o.calls[1].fn = "find_mmc_device" /\ o.calls[1].res.found
    /\ o.calls[2].fn = "mmc_init" /\ o.calls[2].res = 0

PartFound(o) ==
    /\ Len(o.calls) = 3
    /\ o.calls[3].fn = "get_partition_info" /\ o.calls[3].res.ok

\* the mapping, for the partition numbers (P and I) up to pmax
FillMapsDescriptor(pmax) ==
    (last.op = "fill" /\ DeviceReady(last) /\ arg.form.n = 3) =>
        LET f == arg.form
            d == last.dfu
            raw(start, size, blksz) ==
                /\ last.ret = 0 /\ d.ops
                /\ d.layout = "DFU_RAW_ADDR"
                /\ d.lba_start = start /\ d.lba_size = size
                /\ d.lba_blk_size = blksz
            fs(layout) ==
                /\ last.ret = 0 /\ d.ops
                /\ d.layout = layout /\ d.dev = f.a /\ d.part = f.b
        IN  /\ (f.kind = "raw" /\ f.suffix = "none") =>
                   /\ raw(f.a, f.b, last.calls[1].res.read_bl_len)
                   /\ d.hw_partition < 0
            /\ (f.kind = "raw" /\ f.suffix = "mmcpart" /\ f.p <= pmax) =>
                   /\ raw(f.a, f.b, last.calls[1].res.read_bl_len)
                   /\ d.hw_partition = f.p
            /\ (/\ f.kind = "part" /\ f.suffix = "none"
                /\ PartFound(last) /\ f.b <= pmax) =>
                   /\ last.calls[3].part = f.b
                   /\ raw(last.calls[3].res.start, last.calls[3].res.size,
                          last.calls[3].res.blksz)
                   /\ d.hw_partition < 0
            /\ (f.kind = "fat" /\ f.suffix = "none") => fs("DFU_FS_FAT")
            /\ (f.kind = "ext4" /\ f.suffix = "none") => fs("DFU_FS_EXT4")

GoodDescriptor == Descriptor(Form("raw", 3, 1, 1, "dec", "none", 0))

DeviceNotFound ==
    fill_entity(BlankEntity, GoodDescriptor,
                [found |-> FALSE, read_bl_len |-> 0], 0,
                [ok |-> FALSE, start |-> 0, size |-> 0, blksz |-> 0], 0).ret

InitFailure ==
    fill_entity(BlankEntity, GoodDescriptor,
                [found |-> TRUE, read_bl_len |-> 1], -1,
                [ok |-> FALSE, start |-> 0, size |-> 0, blksz |-> 0], 0).ret

C13_InvalidArgumentDistinct ==
    (last.op = "fill" /\ (arg.form.n < 3 \/ arg.form.kind \notin KnownKinds))
    => /\ last.ret < 0
       /\ last.ret # DeviceNotFound
       /\ last.ret # InitFailure
       /\ last.dfu.layout = "UNSET"
       /\ ~last.dfu.ops

(***************************************************************************)
(* C19.  Raw round trip: a successful read of a raw entity at the offset   *)
(* and length of the last successful write, with no block_write since,     *)
(* reads the block range that the write wrote, on the hardware partition   *)
(* that was active when it was written, so that it returns what was        *)
(* written.                                                                *)
(* An entity without "mmcpart" is accessed on whatever partition is        *)
(* active, and an access to another entity whose switch back fails leaves  *)
(* another partition active.                                               *)
(***************************************************************************)
C19_RawRoundTrip ==
    (/\ last.op = "read"
     /\ last.dfu = arg.dfu
     /\ last.ret = 0
     /\ wrote.done)
    => \A i \in DOMAIN last.calls :
           IsBlockCall(last.calls[i]) =>
               /\ last.calls[i].start = wrote.start
               /\ last.calls[i].count = wrote.count
               /\ ActiveAt(last, i) = wrote.part

====
